---- MODULE Spec2Model ----
(***************************************************************************)
(* Host-side protocol logic of the Algorand Ledger client (AlgorandApp):   *)
(* the legacy chunker, the chunk-transfer loop of sign and signData, and   *)
(* the classification of device responses.                                 *)
(*                                                                         *)
(* A Buffer is a sequence of bytes (0..255).  An optional value (a         *)
(* parameter that may be `undefined`) is a sequence of length 0 or 1.      *)
(* An async method is one action per segment between two awaits.           *)
(* Spec runs calls one after the other; SpecConcurrent runs the calls of   *)
(* Callers concurrently against the same app instance and transport.       *)
(***************************************************************************)
EXTENDS Integers, Sequences, FiniteSets, TLC

VARIABLES pc, op, args, chunks, idx, signatureResponse, sent, received,
          result, nCalls, calls, wire

\* the state of the calls made one after the other
seqVars == <<pc, op, args, chunks, idx, signatureResponse, sent, received,
             result, nCalls>>

\* the state of the calls started concurrently on one app instance: the
\* locals of each call, and the exchanges handed to the shared transport in
\* the order of the transport.send calls
concVars == <<calls, wire>>

vars == <<seqVars, concVars>>

(***************************************************************************)
(* Bounds of the model                                                     *)
(***************************************************************************)
\* message lengths are taken within Slack bytes of a chunk boundary, of the
\* message alone or of the message after a 4-byte prefix
Slack == 1
\* multiples of chunkSize around which message lengths are taken: 0..MaxMult
MaxMult == 2
\* number of calls issued one after the other on the same app instance
MaxCalls == 2

(***************************************************************************)
(* Program constants                                                       *)
(***************************************************************************)
cla == 128
SIGN_MSGPACK == 8
SIGN_ARBITRARY == 16
P1_FIRST_ACCOUNT_ID == 1
P1_MORE == 128
P2_MORE_CHUNKS == 128
P2_LAST_CHUNK == 0
P1_INIT == 0
P1_ADD == 1
P1_LAST == 2
chunkSize == 250
\* length of the signature the device answers with
SIGLEN == 64

\* LedgerError (./common)
NoErrors == 36864
DataIsInvalid == 27012
BadKeyHandle == 27264
\* ArbitrarySignError
ErrorInvalidScope == 27016
ErrorFailedDecoding == 27017
ErrorInvalidSigner == 27018
ErrorMissingDomain == 27019
ErrorMissingAuthenticatedData == 27020
ErrorBadJson == 27021
ErrorFailedDomainAuth == 27022
ErrorFailedHdPath == 27023
GenericError == 25600
\* LedgerError.UnknownTransportError of @zondax/ledger-js
UnknownTransportError == 65535

(***************************************************************************)
(* Buffers                                                                 *)
(***************************************************************************)
Min(a, b) == IF a < b THEN a ELSE b

Max(a, b) == IF a < b THEN b ELSE a

None == <<>>

Some(v) == <<v>>

\* a buffer of n bytes whose contents depend on the position and on seed
Fill(n, seed) == [k \in 1..n |-> (seed + 7 * k) % 256]

\* Buffer.slice(start, end): both offsets are clamped to the buffer
slice(buffer, start, end) ==
    LET s == Min(Max(start, 0), Len(buffer))
        e == Min(Max(end, 0), Len(buffer))
    IN  IF e <= s THEN <<>> ELSE SubSeq(buffer, s + 1, e)

\* Buffer.writeUInt32BE on a fresh Buffer.alloc(4)
writeUInt32BE(v) ==
    <<(v \div 16777216) % 256, (v \div 65536) % 256, (v \div 256) % 256, v % 256>>

\* Buffer.readUInt16BE(offset)
readUInt16BE(buffer, offset) == buffer[offset + 1] * 256 + buffer[offset + 2]

\* Buffer.from(string): UTF-8 of a string given as code points below 0x800
RECURSIVE utf8(_)
utf8(chars) ==
    IF chars = <<>> THEN <<>>
    ELSE LET c == Head(chars)
         IN  (IF c < 128 THEN <<c>> ELSE <<192 + (c \div 64), 128 + (c % 64)>>)
             \o utf8(Tail(chars))

\* Buffer.concat(list)
RECURSIVE concat(_)
concat(list) == IF list = <<>> THEN <<>> ELSE Head(list) \o concat(Tail(list))

(***************************************************************************)
(* prepareChunksFromAccountId                                              *)
(***************************************************************************)
\* a message is a string or a Buffer
messageBufferOf(message) ==
    IF message.isString THEN utf8(message.val) ELSE message.val

\* presplit with the account id written little-endian
presplitLittleEndian(accountId, message) ==
    IF accountId # 0
    THEN concat(<<<<accountId % 256, (accountId \div 256) % 256,
                    (accountId \div 65536) % 256, (accountId \div 16777216) % 256>>,
                  messageBufferOf(message)>>)
    ELSE concat(<<messageBufferOf(message)>>)

\* the buffer that is split
presplit(accountId, message) ==
    IF accountId # 0
    THEN concat(<<writeUInt32BE(accountId), messageBufferOf(message)>>)
    ELSE concat(<<messageBufferOf(message)>>)

RECURSIVE chunkLoop(_, _, _)
chunkLoop(buffer, i, acc) ==
    IF i < Len(buffer)
    THEN LET end == IF i > Len(buffer) THEN Len(buffer) ELSE i + chunkSize
         IN  chunkLoop(buffer, i + chunkSize, Append(acc, slice(buffer, i, end)))
    ELSE acc

\* the loop with the condition i + chunkSize <= length: the tail is not pushed
RECURSIVE chunkLoopFullOnly(_, _, _)
chunkLoopFullOnly(buffer, i, acc) ==
    IF i + chunkSize <= Len(buffer)
    THEN chunkLoopFullOnly(buffer, i + chunkSize,
                           Append(acc, slice(buffer, i, i + chunkSize)))
    ELSE acc

prepareChunksDropTail(accountId, message) ==
    chunkLoopFullOnly(presplit(accountId, message), 0, <<>>)

\* the loop with the condition i <= length: an empty chunk after a full one
RECURSIVE chunkLoopInclusive(_, _, _)
chunkLoopInclusive(buffer, i, acc) ==
    IF i <= Len(buffer)
    THEN chunkLoopInclusive(buffer, i + chunkSize,
                            Append(acc, slice(buffer, i, i + chunkSize)))
    ELSE acc

prepareChunksInclusive(accountId, message) ==
    chunkLoopInclusive(presplit(accountId, message), 0, <<>>)

prepareChunksFromAccountId(accountId, message) ==
    chunkLoop(presplit(accountId, message), 0, <<>>)

(***************************************************************************)
(* signData: decoding of the request and the encoded field buffer          *)
(***************************************************************************)
\* the base64 alphabet as character codes: A-Z a-z 0-9 + /
B64Alphabet ==
    [k \in 1..64 |-> IF k <= 26 THEN 64 + k
                     ELSE IF k <= 52 THEN 70 + k
                     ELSE IF k <= 62 THEN k - 5
                     ELSE IF k = 63 THEN 43 ELSE 47]

\* the sextet a character stands for (also the URL-safe - and _), else -1
unbase64(c) ==
    IF c >= 65 /\ c <= 90 THEN c - 65
    ELSE IF c >= 97 /\ c <= 122 THEN c - 71
    ELSE IF c >= 48 /\ c <= 57 THEN c + 4
    ELSE IF c = 43 \/ c = 45 THEN 62
    ELSE IF c = 47 \/ c = 95 THEN 63
    ELSE -1

isB64(c) == unbase64(c) >= 0

\* Buffer.from(str, 'base64'): decoding stops at the first '=', characters
\* outside the alphabet are skipped, a dangling single sextet is dropped
fromBase64(str) ==
    LET eqs == {k \in 1..Len(str) : str[k] = 61}
        upto == IF eqs = {} THEN Len(str)
                ELSE (CHOOSE k \in eqs : \A j \in eqs : k <= j) - 1
        cs == SelectSeq(SubSeq(str, 1, upto), isB64)
        n == Len(cs)
        sx(k) == unbase64(cs[k])
        outLen == (n \div 4) * 3
                  + (IF n % 4 = 2 THEN 1 ELSE IF n % 4 = 3 THEN 2 ELSE 0)
    IN  [j \in 1..outLen |->
            LET g == 4 * ((j - 1) \div 3)
                r == (j - 1) % 3
            IN  IF r = 0 THEN sx(g + 1) * 4 + (sx(g + 2) \div 16)
                ELSE IF r = 1 THEN (sx(g + 2) % 16) * 16 + (sx(g + 3) \div 4)
                ELSE (sx(g + 3) % 4) * 64 + sx(g + 4)]

\* Buffer.writeUInt16BE(value, offset) on buffer
writeUInt16BE(buffer, value, offset) ==
    [k \in 1..Len(buffer) |->
        IF k = offset + 1 THEN (value \div 256) % 256
        ELSE IF k = offset + 2 THEN value % 256
        ELSE buffer[k]]

\* source.copy(target, offset)
copy(source, target, offset) ==
    [k \in 1..Len(target) |->
        IF k > offset /\ k <= offset + Len(source) THEN source[k - offset]
        ELSE target[k]]

\* Buffer.alloc(size)
alloc(size) == [k \in 1..size |-> 0]

\* one path component as 4 bytes (writeUInt32LE of the hardened value)
writeUInt32LE(n, hardened) ==
    <<n % 256, (n \div 256) % 256, (n \div 65536) % 256,
      ((n \div 16777216) % 128) + (IF hardened THEN 128 ELSE 0)>>

requiredPathLengths == {5}

\* a path string is [m |-> it starts with "m/", elems |-> its components]
DEFAULT_SIGN_DATA_PATH ==
    [m |-> TRUE,
     elems |-> <<[n |-> 44, h |-> TRUE], [n |-> 283, h |-> TRUE],
                 [n |-> 0, h |-> TRUE], [n |-> 0, h |-> FALSE],
                 [n |-> 0, h |-> FALSE]>>]

\* the string is not empty
truthyPath(path) == path.m \/ path.elems # <<>>

\* BaseApp.serializePath: throws on a malformed path
serializePath(path) ==
    IF ~path.m
    THEN [threw |-> TRUE,
          e |-> [name |-> "ResponseError", returnCode |-> GenericError,
                 errorMessage |-> "Path should start with \"m/\""]]
    ELSE IF Len(path.elems) \notin requiredPathLengths
    THEN [threw |-> TRUE,
          e |-> [name |-> "ResponseError", returnCode |-> GenericError,
                 errorMessage |-> "Invalid path length"]]
    ELSE [threw |-> FALSE,
          buffer |-> concat([k \in 1..Len(path.elems) |->
                               writeUInt32LE(path.elems[k].n, path.elems[k].h)])]

\* serializeEncoding
serializeEncoding(encoding) ==
    IF encoding = "base64"
    THEN [threw |-> FALSE, buffer |-> <<1>>]
    ELSE [threw |-> TRUE, e |-> [name |-> "Error", message |-> "Unsupported encoding"]]

\* writeField leaving out a variable-length field that has no bytes
writeFieldOmitEmpty(st, buffer, variableLength) ==
    IF variableLength /\ buffer = <<>>
    THEN st
    ELSE LET st1 == IF variableLength
                    THEN [buf |-> writeUInt16BE(st.buf, Len(buffer), st.offset),
                          offset |-> st.offset + 2]
                    ELSE st
         IN  [buf |-> copy(buffer, st1.buf, st1.offset),
              offset |-> st1.offset + Len(buffer)]

\* writeField of signData on the state [buf, offset]
writeField(st, buffer, variableLength) ==
    LET st1 == IF variableLength
               THEN [buf |-> writeUInt16BE(st.buf, Len(buffer), st.offset),
                     offset |-> st.offset + 2]
               ELSE st
    IN  [buf |-> copy(buffer, st1.buf, st1.offset),
         offset |-> st1.offset + Len(buffer)]

\* the buffers signData builds from its arguments
signerBufferOf(signingData) == signingData.signer

scopeBufferOf(metadata) == <<metadata.scope % 256>>

\* decodedData without the else branch: every encoding is decoded as base64
decodedDataAnyEncoding(signingData, metadata) ==
    [threw |-> FALSE, buffer |-> fromBase64(signingData.data)]

\* decodedData: only the base64 encoding is decoded, any other one throws
decodedDataOf(signingData, metadata) ==
    IF metadata.encoding = "base64"
    THEN [threw |-> FALSE, buffer |-> fromBase64(signingData.data)]
    ELSE [threw |-> TRUE, e |-> [name |-> "Error", message |-> "Failed decoding"]]

dataBufferOf(signingData, metadata) == decodedDataOf(signingData, metadata).buffer

domainBufferOf(signingData) ==
    IF signingData.domain # None /\ signingData.domain[1] # <<>>
    THEN utf8(signingData.domain[1]) ELSE <<>>

requestIdBufferOf(signingData) ==
    IF signingData.requestId # None /\ signingData.requestId[1] # <<>>
    THEN fromBase64(signingData.requestId[1]) ELSE <<>>

authDataBufferOf(signingData) ==
    IF signingData.authenticationData # None
    THEN signingData.authenticationData[1] ELSE <<>>

\* pathBuffer ignoring the path of the request
pathBufferAlwaysDefault(signingData) == serializePath(DEFAULT_SIGN_DATA_PATH)

pathBufferOf(signingData) ==
    IF signingData.hdPath # None /\ truthyPath(signingData.hdPath[1])
    THEN serializePath(signingData.hdPath[1])
    ELSE serializePath(DEFAULT_SIGN_DATA_PATH)

\* messageSize counting a length prefix only for a field that has bytes
messageSizeSkipEmpty(signingData, metadata) ==
    LET prefixed(b) == IF b = <<>> THEN 0 ELSE 2 + Len(b)
    IN  Len(signerBufferOf(signingData)) + Len(scopeBufferOf(metadata))
        + Len(serializeEncoding(metadata.encoding).buffer)
        + prefixed(dataBufferOf(signingData, metadata))
        + prefixed(domainBufferOf(signingData))
        + prefixed(requestIdBufferOf(signingData))
        + prefixed(authDataBufferOf(signingData))

messageSizeOf(signingData, metadata) ==
    Len(signerBufferOf(signingData)) + Len(scopeBufferOf(metadata))
    + Len(serializeEncoding(metadata.encoding).buffer)
    + 2 + Len(dataBufferOf(signingData, metadata))
    + 2 + Len(domainBufferOf(signingData))
    + 2 + Len(requestIdBufferOf(signingData))
    + 2 + Len(authDataBufferOf(signingData))

\* the final writeField state: the encoded field buffer and the offset
encodeFields(signingData, metadata) ==
    LET s0 == [buf |-> alloc(messageSizeOf(signingData, metadata)), offset |-> 0]
        s1 == writeField(s0, signerBufferOf(signingData), FALSE)
        s2 == writeField(s1, scopeBufferOf(metadata), FALSE)
        s3 == writeField(s2, serializeEncoding(metadata.encoding).buffer, FALSE)
        s4 == writeField(s3, dataBufferOf(signingData, metadata), TRUE)
        s5 == writeField(s4, domainBufferOf(signingData), TRUE)
        s6 == writeField(s5, requestIdBufferOf(signingData), TRUE)
    IN  writeField(s6, authDataBufferOf(signingData), TRUE)

fieldBufferOf(signingData, metadata) == encodeFields(signingData, metadata).buf

\* BaseApp.messageToChunks
RECURSIVE messageToChunksLoop(_, _, _)
messageToChunksLoop(buffer, i, acc) ==
    IF i < Len(buffer)
    THEN LET end == Min(i + chunkSize, Len(buffer))
         IN  messageToChunksLoop(buffer, i + chunkSize,
                                 Append(acc, SubSeq(buffer, i + 1, end)))
    ELSE acc

\* messageToChunks cutting one byte too many into each chunk
messageToChunksOversize(message) ==
    [k \in 1..((Len(message) + chunkSize) \div (chunkSize + 1)) |->
        SubSeq(message, (k - 1) * (chunkSize + 1) + 1,
               Min(k * (chunkSize + 1), Len(message)))]

messageToChunks(message) == messageToChunksLoop(message, 0, <<>>)

\* signData from its entry to its first exchange: the error it throws, or
\* the path buffer and the chunks of the encoded field buffer
signDataPrepare(signingData, metadata) ==
    IF decodedDataOf(signingData, metadata).threw
    THEN decodedDataOf(signingData, metadata)
    ELSE IF serializeEncoding(metadata.encoding).threw
    THEN serializeEncoding(metadata.encoding)
    ELSE IF pathBufferOf(signingData).threw
    THEN pathBufferOf(signingData)
    ELSE [threw |-> FALSE,
          pathBuffer |-> pathBufferOf(signingData).buffer,
          chunks |-> messageToChunks(fieldBufferOf(signingData, metadata))]

(***************************************************************************)
(* Error descriptions                                                      *)
(***************************************************************************)
HexDigit ==
    <<"0", "1", "2", "3", "4", "5", "6", "7", "8", "9", "A", "B", "C", "D", "E", "F">>

\* returnCode.toString(16).toUpperCase()
RECURSIVE toString16(_)
toString16(n) ==
    IF n < 16 THEN HexDigit[n + 1]
    ELSE toString16(n \div 16) \o HexDigit[(n % 16) + 1]

\* the generic table of device errors (the entries of the statuses that
\* the model uses); a table is a function from codes to descriptions
ERROR_DESCRIPTION_OVERRIDE ==
    (NoErrors :> "No errors")
    @@ (DataIsInvalid :> "Data is invalid")
    @@ (BadKeyHandle :> "Bad key handle")
    @@ (UnknownTransportError :> "Unknown transport error")

\* the entries of signData, without the spread of the generic table
ARBITRARY_SIGN_ERRORS_ONLY ==
    (ErrorInvalidScope :> "Invalid Scope")
    @@ (ErrorFailedDecoding :> "Failed decoding")
    @@ (ErrorInvalidSigner :> "Invalid Signer")
    @@ (ErrorMissingDomain :> "Missing Domain")
    @@ (ErrorMissingAuthenticatedData :> "Missing Authentication Data")
    @@ (ErrorBadJson :> "Bad JSON")
    @@ (ErrorFailedDomainAuth :> "Failed Domain Auth")
    @@ (ErrorFailedHdPath :> "Failed HD Path")

\* the table of signData: the generic table spread first, then the eight
\* entries of ArbitrarySignError, a later key replacing an earlier one
ARBITRARY_SIGN_ERROR_DESCRIPTIONS ==
    ARBITRARY_SIGN_ERRORS_ONLY @@ ERROR_DESCRIPTION_OVERRIDE

\* no table: the parameter customErrorList left undefined
NoCustomErrors == <<>>

\* errorCodeToString: the description of the custom table if it has one,
\* else the one of the generic table, else the code in hexadecimal
errorCodeToString(returnCode, customErrorList) ==
    LET unknown == "Unknown Return Code: 0x" \o toString16(returnCode)
        generic == IF returnCode \in DOMAIN ERROR_DESCRIPTION_OVERRIDE
                   THEN ERROR_DESCRIPTION_OVERRIDE[returnCode]
                   ELSE unknown
    IN  IF returnCode \in DOMAIN customErrorList
        THEN customErrorList[returnCode]
        ELSE generic

\* ResponseError.fromReturnCode
fromReturnCode(returnCode, customErrorList) ==
    [name |-> "ResponseError",
     returnCode |-> returnCode,
     errorMessage |-> errorCodeToString(returnCode, customErrorList)]

(***************************************************************************)
(* Transport and response classification                                   *)
(***************************************************************************)
\* statuses the device answers with
Statuses ==
    {NoErrors, DataIsInvalid, BadKeyHandle,
     ErrorInvalidScope, ErrorFailedDecoding, ErrorInvalidSigner,
     ErrorMissingDomain, ErrorMissingAuthenticatedData, ErrorBadJson,
     ErrorFailedDomainAuth, ErrorFailedHdPath}

\* payloads the device answers with
Payloads == {<<>>, Fill(SIGLEN, 1)}

\* what one transport exchange resolves to: a raw response (payload and
\* 2-byte status trailer) or a failure without status (disconnect, timeout)
Outcomes ==
    {[type |-> "response", raw |-> p \o <<NoErrors \div 256, NoErrors % 256>>] :
        p \in Payloads}
    \cup {[type |-> "response", raw |-> <<sw \div 256, sw % 256>>] :
        sw \in Statuses \ {NoErrors}}
    \cup {[type |-> "failure"]}

statusList == {NoErrors, DataIsInvalid, BadKeyHandle}

\* sendGenericChunk sending the instruction of sign whatever it is given
sendGenericChunkFixedIns(ins, p2, chunkIdx, chunkNum, chunk, p1) ==
    [cla |-> cla, ins |-> SIGN_MSGPACK,
     p1 |-> IF p1 = None
            THEN (IF chunkIdx = 0 THEN P1_FIRST_ACCOUNT_ID ELSE P1_MORE)
            ELSE p1[1],
     p2 |-> p2, chunkIdx |-> chunkIdx, chunk |-> chunk]

\* sendGenericChunk deriving P1 without looking at the chunk index
sendGenericChunkNoFirst(ins, p2, chunkIdx, chunkNum, chunk, p1) ==
    [cla |-> cla, ins |-> ins,
     p1 |-> IF p1 = None THEN P1_MORE ELSE p1[1],
     p2 |-> p2, chunkIdx |-> chunkIdx, chunk |-> chunk]

\* sendGenericChunk testing `!p1` instead of `p1 === undefined`
sendGenericChunkFalsyP1(ins, p2, chunkIdx, chunkNum, chunk, p1) ==
    [cla |-> cla, ins |-> ins,
     p1 |-> IF p1 = None \/ p1 = Some(0)
            THEN (IF chunkIdx = 0 THEN P1_FIRST_ACCOUNT_ID ELSE P1_MORE)
            ELSE p1[1],
     p2 |-> p2, chunkIdx |-> chunkIdx, chunk |-> chunk]

\* sendGenericChunk up to its await: the APDU handed to transport.send
sendGenericChunk(ins, p2, chunkIdx, chunkNum, chunk, p1) ==
    [cla |-> cla,
     ins |-> ins,
     p1 |-> IF p1 = None
            THEN (IF chunkIdx = 0 THEN P1_FIRST_ACCOUNT_ID ELSE P1_MORE)
            ELSE p1[1],
     p2 |-> p2,
     chunkIdx |-> chunkIdx,
     chunk |-> chunk]

\* the bytes transport.send puts on the wire for an exchange
\* (an undefined payload is sent as the empty buffer)
wireData(x) == IF x.chunk = None THEN <<>> ELSE x.chunk[1]

\* transport.send after the exchange: throws unless the status is listed
transportSend(outcome) ==
    IF outcome.type = "failure"
    THEN [threw |-> TRUE, e |-> [name |-> "TransportError"]]
    ELSE LET sw == readUInt16BE(outcome.raw, Len(outcome.raw) - 2)
         IN  IF sw \notin statusList
             THEN [threw |-> TRUE,
                   e |-> [name |-> "TransportStatusError", statusCode |-> sw]]
             ELSE [threw |-> FALSE, responseBuffer |-> outcome.raw]

\* processResponse accepting every status of statusList
processResponseAllowListed(responseRaw) ==
    LET returnCode == readUInt16BE(responseRaw, Len(responseRaw) - 2)
    IN  IF returnCode \in statusList
        THEN [threw |-> FALSE,
              payload |-> SubSeq(responseRaw, 1, Len(responseRaw) - 2)]
        ELSE [threw |-> TRUE, e |-> fromReturnCode(returnCode, NoCustomErrors)]

\* processResponse leaving the status trailer in the payload
processResponseKeepTrailer(responseRaw) ==
    LET returnCode == readUInt16BE(responseRaw, Len(responseRaw) - 2)
    IN  IF returnCode = NoErrors
        THEN [threw |-> FALSE, payload |-> responseRaw]
        ELSE [threw |-> TRUE, e |-> fromReturnCode(returnCode, NoCustomErrors)]

\* processResponse: payload of a response with status NoErrors, else throws
\* (CUSTOM_APP_ERROR_DESCRIPTION is not set by _params; the responses with
\* another status carry no payload, so nothing is appended to the message)
processResponse(responseRaw) ==
    LET returnCode == readUInt16BE(responseRaw, Len(responseRaw) - 2)
        payload == SubSeq(responseRaw, 1, Len(responseRaw) - 2)
    IN  IF returnCode = NoErrors
        THEN [threw |-> FALSE, payload |-> payload]
        ELSE [threw |-> TRUE, e |-> fromReturnCode(returnCode, NoCustomErrors)]

\* sendGenericChunk returning the response without looking at its status
sendGenericChunkResumeUnchecked(outcome) ==
    IF outcome.type = "failure"
    THEN [threw |-> TRUE, e |-> [name |-> "TransportError"]]
    ELSE [threw |-> FALSE,
          payload |-> SubSeq(outcome.raw, 1, Len(outcome.raw) - 2)]

\* sendGenericChunk after its await
sendGenericChunkResume(outcome) ==
    LET r == transportSend(outcome)
    IN  IF r.threw THEN r ELSE processResponse(r.responseBuffer)

\* processErrorResponse handing back an error without status code as it is
processErrorResponsePassThrough(e, customErrorList) ==
    IF "statusCode" \in DOMAIN e
    THEN fromReturnCode(e.statusCode, customErrorList)
    ELSE e

\* processErrorResponse without the table of the operation
processErrorResponseNoTable(e, customErrorList) ==
    IF "statusCode" \in DOMAIN e
    THEN fromReturnCode(e.statusCode, NoCustomErrors)
    ELSE IF "returnCode" \in DOMAIN e /\ "errorMessage" \in DOMAIN e
    THEN e
    ELSE fromReturnCode(UnknownTransportError, NoCustomErrors)

\* processErrorResponse: the error the caller sees
processErrorResponse(e, customErrorList) ==
    IF "statusCode" \in DOMAIN e
    THEN fromReturnCode(e.statusCode, customErrorList)
    ELSE IF "returnCode" \in DOMAIN e /\ "errorMessage" \in DOMAIN e
    THEN e
    ELSE fromReturnCode(UnknownTransportError, customErrorList)

(***************************************************************************)
(* The path-based sign of the earlier AlgorandApp                          *)
(***************************************************************************)
\* extractAccountIdFromSerializedPath: the third word of the path, read
\* little-endian, without its hardened bit
extractAccountIdFromSerializedPath(path) ==
    path[9] + path[10] * 256 + path[11] * 65536 + (path[12] % 128) * 16777216

\* prepareChunksWithAccountId: the account id as a chunk of its own, before
\* the chunks of the message
prepareChunksWithAccountId(accountId, message) ==
    <<writeUInt32BE(accountId)>> \o messageToChunks(message)

\* sign(path, blob): the exchanges it issues when each one is accepted
\* (none when serializePath rejects the path)
signWithPath(path, blob) ==
    IF serializePath(path).threw THEN <<>>
    ELSE LET accountId ==
                 extractAccountIdFromSerializedPath(serializePath(path).buffer)
             cs == prepareChunksWithAccountId(accountId, blob)
         IN  [i \in 1..Len(cs) |->
                 sendGenericChunk(SIGN_MSGPACK,
                                  IF i - 1 < Len(cs) - 1
                                  THEN P2_MORE_CHUNKS ELSE P2_LAST_CHUNK,
                                  i - 1, Len(cs), Some(cs[i]), None)]

\* the path m/44'/283'/accountId'/0/0
accountPath(accountId) ==
    [m |-> TRUE,
     elems |-> <<[n |-> 44, h |-> TRUE], [n |-> 283, h |-> TRUE],
                 [n |-> accountId, h |-> TRUE], [n |-> 0, h |-> FALSE],
                 [n |-> 0, h |-> FALSE]>>]

(***************************************************************************)
(* Inputs                                                                  *)
(***************************************************************************)
MsgLens ==
    {n \in 0..(MaxMult * chunkSize + Slack) :
        \E m \in 0..MaxMult, d \in (0 - Slack)..Slack :
            n = m * chunkSize + d \/ n = m * chunkSize - 4 + d}

Messages ==
    {[isString |-> FALSE, val |-> Fill(n, 1)] : n \in MsgLens}
    \cup {[isString |-> TRUE, val |-> <<116, 233, 115, 116>>]}

AccountIds == {0, 1, 16909060}

\* a base64 string of n characters
B64Text(n, seed) == [k \in 1..n |-> B64Alphabet[((seed + 5 * k) % 64) + 1]]

\* lengths of the data string: the field buffer of a request without
\* optional fields then has 42, 50, 250, 251 and 501 bytes
DataLens == {0, 11, 278, 279, 612}

\* (domain, requestId, authenticationData) of a request
Optionals ==
    {[domain |-> None, requestId |-> None, authenticationData |-> None],
     [domain |-> Some(<<>>), requestId |-> Some(<<>>),
      authenticationData |-> Some(<<>>)],
     [domain |-> Some(<<116, 233, 115, 116>>),
      requestId |-> Some(B64Text(6, 3) \o <<61, 61>>),
      authenticationData |-> Some(Fill(32, 9))],
     [domain |-> None, requestId |-> Some(B64Text(4, 7)),
      authenticationData |-> None]}

HdPaths ==
    {None,
     Some([m |-> FALSE, elems |-> <<>>]),
     Some(DEFAULT_SIGN_DATA_PATH),
     Some([m |-> TRUE,
           elems |-> <<[n |-> 44, h |-> TRUE], [n |-> 283, h |-> TRUE],
                       [n |-> 258, h |-> TRUE], [n |-> 0, h |-> FALSE],
                       [n |-> 7, h |-> FALSE]>>]),
     Some([m |-> TRUE, elems |-> <<[n |-> 44, h |-> TRUE]>>])}

StdSigData(dataLen, seed, o, hdPath) ==
    [data |-> B64Text(dataLen, seed),
     signer |-> Fill(32, seed),
     domain |-> o.domain,
     requestId |-> o.requestId,
     authenticationData |-> o.authenticationData,
     hdPath |-> hdPath]

SigningDatas ==
    {StdSigData(n, 2, o, Some(DEFAULT_SIGN_DATA_PATH)) :
        n \in DataLens, o \in Optionals}
    \cup {StdSigData(11, 1, o, h) : o \in Optionals, h \in HdPaths}

Metadatas ==
    {[scope |-> 1, encoding |-> "base64"],
     [scope |-> -1, encoding |-> "base64"],
     [scope |-> 1, encoding |-> "utf16"]}

\* the calls of signData that are made
SignDataCalls ==
    {<<sd, md>> \in SigningDatas \X Metadatas :
        \/ (md.scope = 1 /\ md.encoding = "base64")
        \/ (Len(sd.data) = 11 /\ sd.hdPath = Some(DEFAULT_SIGN_DATA_PATH))}

\* the calls of sign that are made: every message with no account id and
\* with a multi-byte one, the short messages with every account id
SignCalls ==
    {c \in AccountIds \X Messages :
        c[1] \in {0, 16909060} \/ Len(c[2].val) < chunkSize - Slack - 4}

\* what each call computes before its first exchange, as explicit tables
\* (@@ makes TLC evaluate them once)
signChunks == [c \in SignCalls |-> prepareChunksFromAccountId(c[1], c[2])] @@ <<>>

signDataPrepared == [c \in SignDataCalls |-> signDataPrepare(c[1], c[2])] @@ <<>>

\* the calls that are started concurrently
Callers == {1, 2}

\* what the concurrent calls are made with: messages of 1, 2 and 3 chunks,
\* a request of 2 exchanges and a request with an unsupported encoding
ConcurrentSignCalls ==
    {c \in SignCalls :
        /\ c[1] = 0 /\ ~c[2].isString
        /\ Len(c[2].val) \in {1, chunkSize + 1, 2 * chunkSize + 1}}

ConcurrentSignDataCalls ==
    {c \in SignDataCalls :
        /\ Len(c[1].data) = 11
        /\ c[1].hdPath = Some(DEFAULT_SIGN_DATA_PATH)
        /\ c[1].domain = None /\ c[1].authenticationData = None
        /\ c[2].scope = 1}

\* what their exchanges resolve to
ConcurrentOutcomes ==
    {o \in Outcomes :
        \/ o.type = "failure"
        \/ Len(o.raw) = SIGLEN + 2
        \/ readUInt16BE(o.raw, Len(o.raw) - 2) = DataIsInvalid}

\* a call that has not been started
idleCall ==
    [pc |-> "idle", op |-> "none", chunks |-> <<>>, idx |-> 0,
     result |-> [kind |-> "pending"]]

(***************************************************************************)
(* State machine                                                           *)
(***************************************************************************)
Init ==
    /\ pc = "idle"
    /\ op = "none"
    /\ args = [accountId |-> 0, message |-> [isString |-> FALSE, val |-> <<>>]]
    /\ chunks = <<>>
    /\ idx = 0
    /\ signatureResponse = None
    /\ sent = <<>>
    /\ received = <<>>
    /\ result = [kind |-> "pending"]
    /\ nCalls = 0
    /\ calls = [c \in Callers |-> idleCall]
    /\ wire = <<>>

\* sign guarding its first exchange: with an empty chunk list it sends
\* nothing and fails
signSkipsEmpty(accountId, message) ==
    /\ pc \in {"idle", "done"}
    /\ nCalls < MaxCalls
    /\ LET cs == signChunks[<<accountId, message>>]
           p2 == IF Len(cs) > 1 THEN P2_MORE_CHUNKS ELSE P2_LAST_CHUNK
       IN  /\ chunks' = cs
           /\ IF Len(cs) > 0
              THEN /\ sent' = <<sendGenericChunk(SIGN_MSGPACK, p2, 0, Len(cs),
                                                 Some(cs[1]), None)>>
                   /\ pc' = "awaiting"
                   /\ result' = [kind |-> "pending"]
              ELSE /\ sent' = <<>>
                   /\ pc' = "done"
                   /\ result' = [kind |-> "error",
                                 error |-> processErrorResponse(
                                               [name |-> "TypeError"],
                                               NoCustomErrors)]
    /\ op' = "sign"
    /\ args' = [accountId |-> accountId, message |-> message]
    /\ idx' = 0
    /\ signatureResponse' = None
    /\ received' = <<>>
    /\ nCalls' = nCalls + 1
    /\ UNCHANGED concVars

\* sign keeping the chunk index in the instance: a new call goes on from
\* the index the previous call stopped at
signKeepsIndex(accountId, message) ==
    /\ pc \in {"idle", "done"}
    /\ nCalls < MaxCalls
    /\ LET cs == signChunks[<<accountId, message>>]
           p2 == IF Len(cs) > 1 THEN P2_MORE_CHUNKS ELSE P2_LAST_CHUNK
           chunk0 == IF Len(cs) > 0 THEN Some(cs[1]) ELSE None
       IN  /\ chunks' = cs
           /\ sent' = <<sendGenericChunk(SIGN_MSGPACK, p2, 0, Len(cs), chunk0, None)>>
    /\ pc' = "awaiting"
    /\ op' = "sign"
    /\ args' = [accountId |-> accountId, message |-> message]
    /\ idx' = idx
    /\ signatureResponse' = None
    /\ received' = <<>>
    /\ result' = [kind |-> "pending"]
    /\ nCalls' = nCalls + 1
    /\ UNCHANGED concVars

\* sign, from its entry to the await of the first exchange
sign(accountId, message) ==
    /\ pc \in {"idle", "done"}
    /\ nCalls < MaxCalls
    /\ LET cs == signChunks[<<accountId, message>>]
           p2 == IF Len(cs) > 1 THEN P2_MORE_CHUNKS ELSE P2_LAST_CHUNK
           chunk0 == IF Len(cs) > 0 THEN Some(cs[1]) ELSE None
       IN  /\ chunks' = cs
           /\ sent' = <<sendGenericChunk(SIGN_MSGPACK, p2, 0, Len(cs), chunk0, None)>>
    /\ pc' = "awaiting"
    /\ op' = "sign"
    /\ args' = [accountId |-> accountId, message |-> message]
    /\ idx' = 0
    /\ signatureResponse' = None
    /\ received' = <<>>
    /\ result' = [kind |-> "pending"]
    /\ nCalls' = nCalls + 1
    /\ UNCHANGED concVars

\* signResume with the await of the loop missing: once the first exchange
\* has resolved, every remaining chunk is handed to the transport at once
signResumeNoAwait(outcome) ==
    /\ pc = "awaiting"
    /\ op = "sign"
    /\ received' = Append(received, outcome)
    /\ LET r == sendGenericChunkResume(outcome)
           i == idx + 1
       IN  IF r.threw
           THEN /\ pc' = "done"
                /\ result' = [kind |-> "error",
                              error |-> processErrorResponse(r.e, NoCustomErrors)]
                /\ UNCHANGED <<idx, signatureResponse, sent>>
           ELSE /\ signatureResponse' = Some(r.payload)
                /\ IF i < Len(chunks)
                   THEN /\ sent' = sent \o
                               [k \in 1..(Len(chunks) - i) |->
                                   sendGenericChunk(
                                       SIGN_MSGPACK,
                                       IF i + k - 1 < Len(chunks) - 1
                                       THEN P2_MORE_CHUNKS ELSE P2_LAST_CHUNK,
                                       i + k - 1, Len(chunks),
                                       Some(chunks[i + k]), None)]
                        /\ idx' = Len(chunks) - 1
                        /\ pc' = "awaiting"
                        /\ UNCHANGED result
                   ELSE /\ pc' = "done"
                        /\ result' = [kind |-> "ok",
                                      value |-> [signature |-> r.payload]]
                        /\ UNCHANGED <<idx, sent>>
    /\ UNCHANGED <<op, args, chunks, nCalls>>
    /\ UNCHANGED concVars

\* signResume whose catch never settles the promise of the call: after a
\* rejected exchange the call neither returns nor throws
signResumeHangs(outcome) ==
    /\ pc = "awaiting"
    /\ op = "sign"
    /\ received' = Append(received, outcome)
    /\ LET r == sendGenericChunkResume(outcome)
           i == idx + 1
       IN  IF r.threw
           THEN /\ pc' = "hung"
                /\ UNCHANGED <<idx, signatureResponse, sent, result>>
           ELSE /\ signatureResponse' = Some(r.payload)
                /\ IF i < Len(chunks)
                   THEN LET p2 == IF i < Len(chunks) - 1
                                  THEN P2_MORE_CHUNKS ELSE P2_LAST_CHUNK
                        IN  /\ sent' = Append(sent,
                                   sendGenericChunk(SIGN_MSGPACK, p2, i, Len(chunks),
                                                    Some(chunks[i + 1]), None))
                            /\ idx' = i
                            /\ pc' = "awaiting"
                            /\ UNCHANGED result
                   ELSE /\ pc' = "done"
                        /\ result' = [kind |-> "ok",
                                      value |-> [signature |-> r.payload]]
                        /\ UNCHANGED <<idx, sent>>
    /\ UNCHANGED <<op, args, chunks, nCalls>>
    /\ UNCHANGED concVars

\* sign, from the resolution of exchange idx to the next await or the end
signResume(outcome) ==
    /\ pc = "awaiting"
    /\ op = "sign"
    /\ received' = Append(received, outcome)
    /\ LET r == sendGenericChunkResume(outcome)
           i == idx + 1
       IN  IF r.threw
           THEN /\ pc' = "done"
                /\ result' = [kind |-> "error",
                              error |-> processErrorResponse(r.e, NoCustomErrors)]
                /\ UNCHANGED <<idx, signatureResponse, sent>>
           ELSE /\ signatureResponse' = Some(r.payload)
                /\ IF i < Len(chunks)
                   THEN LET p2 == IF i < Len(chunks) - 1
                                  THEN P2_MORE_CHUNKS ELSE P2_LAST_CHUNK
                        IN  /\ sent' = Append(sent,
                                   sendGenericChunk(SIGN_MSGPACK, p2, i, Len(chunks),
                                                    Some(chunks[i + 1]), None))
                            /\ idx' = i
                            /\ pc' = "awaiting"
                            /\ UNCHANGED result
                   ELSE /\ pc' = "done"
                        /\ result' = [kind |-> "ok",
                                      value |-> [signature |-> r.payload]]
                        /\ UNCHANGED <<idx, sent>>
    /\ UNCHANGED <<op, args, chunks, nCalls>>
    /\ UNCHANGED concVars

\* the value of signData echoing the path that was sent to the device
signDataResponseSentPath(signingData, signature) ==
    [data |-> signingData.data,
     signer |-> signingData.signer,
     domain |-> signingData.domain,
     authenticationData |-> signingData.authenticationData,
     requestId |-> signingData.requestId,
     hdPath |-> IF signingData.hdPath # None /\ truthyPath(signingData.hdPath[1])
                THEN signingData.hdPath
                ELSE Some(DEFAULT_SIGN_DATA_PATH),
     signature |-> signature]

\* the value signData returns
signDataResponse(signingData, signature) ==
    [data |-> signingData.data,
     signer |-> signingData.signer,
     domain |-> signingData.domain,
     authenticationData |-> signingData.authenticationData,
     requestId |-> signingData.requestId,
     hdPath |-> signingData.hdPath,
     signature |-> signature]

\* signData, from its entry to the await of the first exchange
signData(signingData, metadata) ==
    /\ pc \in {"idle", "done"}
    /\ nCalls < MaxCalls
    /\ op' = "signData"
    /\ args' = [signingData |-> signingData, metadata |-> metadata]
    /\ idx' = 0
    /\ signatureResponse' = None
    /\ received' = <<>>
    /\ nCalls' = nCalls + 1
    /\ LET prep == signDataPrepared[<<signingData, metadata>>]
       IN  IF prep.threw
           THEN /\ pc' = "done"
                /\ result' = [kind |-> "error", error |-> prep.e]
                /\ chunks' = <<>>
                /\ sent' = <<>>
           ELSE /\ chunks' = prep.chunks
                /\ sent' = <<sendGenericChunk(SIGN_ARBITRARY, 0, 0,
                                              Len(prep.chunks) + 1,
                                              Some(prep.pathBuffer), Some(P1_INIT))>>
                /\ pc' = "awaiting"
                /\ result' = [kind |-> "pending"]
    /\ UNCHANGED concVars

\* signData, from the resolution of exchange idx to the next await or the end
signDataResume(outcome) ==
    /\ pc = "awaiting"
    /\ op = "signData"
    /\ received' = Append(received, outcome)
    /\ LET r == sendGenericChunkResume(outcome)
           i == idx
       IN  IF r.threw
           THEN /\ pc' = "done"
                /\ result' = [kind |-> "error",
                              error |-> processErrorResponse(
                                            r.e, ARBITRARY_SIGN_ERROR_DESCRIPTIONS)]
                /\ UNCHANGED <<idx, signatureResponse, sent>>
           ELSE /\ signatureResponse' = Some(r.payload)
                /\ IF i < Len(chunks)
                   THEN LET p1 == IF i < Len(chunks) - 1 THEN P1_ADD ELSE P1_LAST
                        IN  /\ sent' = Append(sent,
                                   sendGenericChunk(SIGN_ARBITRARY, 0, i + 1,
                                                    Len(chunks) + 1,
                                                    Some(chunks[i + 1]), Some(p1)))
                            /\ idx' = i + 1
                            /\ pc' = "awaiting"
                            /\ UNCHANGED result
                   ELSE /\ pc' = "done"
                        /\ result' =
                              [kind |-> "ok",
                               value |-> signDataResponse(args.signingData,
                                                          r.payload)]
                        /\ UNCHANGED <<idx, sent>>
    /\ UNCHANGED <<op, args, chunks, nCalls>>
    /\ UNCHANGED concVars

(***************************************************************************)
(* The same methods, each call with its own locals, on a shared transport  *)
(***************************************************************************)
\* sign of call c, from its entry to the await of the first exchange
signConcurrent(c, accountId, message) ==
    /\ calls[c].pc = "idle"
    /\ LET cs == signChunks[<<accountId, message>>]
           p2 == IF Len(cs) > 1 THEN P2_MORE_CHUNKS ELSE P2_LAST_CHUNK
           chunk0 == IF Len(cs) > 0 THEN Some(cs[1]) ELSE None
       IN  /\ wire' = Append(wire,
                  [call |-> c,
                   apdu |-> sendGenericChunk(SIGN_MSGPACK, p2, 0, Len(cs),
                                             chunk0, None)])
           /\ calls' = [calls EXCEPT ![c] =
                  [pc |-> "awaiting", op |-> "sign", chunks |-> cs, idx |-> 0,
                   result |-> [kind |-> "pending"]]]
    /\ UNCHANGED seqVars

\* sign of call c, from the resolution of its exchange to the next await
signConcurrentResume(c, outcome) ==
    /\ calls[c].pc = "awaiting"
    /\ calls[c].op = "sign"
    /\ LET r == sendGenericChunkResume(outcome)
           i == calls[c].idx + 1
           cs == calls[c].chunks
       IN  IF r.threw
           THEN /\ calls' = [calls EXCEPT
                       ![c].pc = "done",
                       ![c].result =
                           [kind |-> "error",
                            error |-> processErrorResponse(r.e, NoCustomErrors)]]
                /\ UNCHANGED wire
           ELSE IF i < Len(cs)
           THEN LET p2 == IF i < Len(cs) - 1
                          THEN P2_MORE_CHUNKS ELSE P2_LAST_CHUNK
                IN  /\ wire' = Append(wire,
                           [call |-> c,
                            apdu |-> sendGenericChunk(SIGN_MSGPACK, p2, i, Len(cs),
                                                      Some(cs[i + 1]), None)])
                    /\ calls' = [calls EXCEPT ![c].idx = i]
           ELSE /\ calls' = [calls EXCEPT
                       ![c].pc = "done",
                       ![c].result = [kind |-> "ok",
                                      value |-> [signature |-> r.payload]]]
                /\ UNCHANGED wire
    /\ UNCHANGED seqVars

\* signData of call c, from its entry to the await of the first exchange
signDataConcurrent(c, signingData, metadata) ==
    /\ calls[c].pc = "idle"
    /\ LET prep == signDataPrepared[<<signingData, metadata>>]
       IN  IF prep.threw
           THEN /\ calls' = [calls EXCEPT ![c] =
                       [pc |-> "done", op |-> "signData", chunks |-> <<>>,
                        idx |-> 0,
                        result |-> [kind |-> "error", error |-> prep.e]]]
                /\ UNCHANGED wire
           ELSE /\ wire' = Append(wire,
                       [call |-> c,
                        apdu |-> sendGenericChunk(SIGN_ARBITRARY, 0, 0,
                                                  Len(prep.chunks) + 1,
                                                  Some(prep.pathBuffer),
                                                  Some(P1_INIT))])
                /\ calls' = [calls EXCEPT ![c] =
                       [pc |-> "awaiting", op |-> "signData",
                        chunks |-> prep.chunks, idx |-> 0,
                        result |-> [kind |-> "pending"]]]
    /\ UNCHANGED seqVars

\* signData of call c, from the resolution of its exchange to the next await
signDataConcurrentResume(c, outcome) ==
    /\ calls[c].pc = "awaiting"
    /\ calls[c].op = "signData"
    /\ LET r == sendGenericChunkResume(outcome)
           i == calls[c].idx
           cs == calls[c].chunks
       IN  IF r.threw
           THEN /\ calls' = [calls EXCEPT
                       ![c].pc = "done",
                       ![c].result =
                           [kind |-> "error",
                            error |-> processErrorResponse(
                                          r.e, ARBITRARY_SIGN_ERROR_DESCRIPTIONS)]]
                /\ UNCHANGED wire
           ELSE IF i < Len(cs)
           THEN LET p1 == IF i < Len(cs) - 1 THEN P1_ADD ELSE P1_LAST
                IN  /\ wire' = Append(wire,
                           [call |-> c,
                            apdu |-> sendGenericChunk(SIGN_ARBITRARY, 0, i + 1,
                                                      Len(cs) + 1,
                                                      Some(cs[i + 1]), Some(p1))])
                    /\ calls' = [calls EXCEPT ![c].idx = i + 1]
           ELSE /\ calls' = [calls EXCEPT
                       ![c].pc = "done",
                       ![c].result = [kind |-> "ok",
                                      value |-> [signature |-> r.payload]]]
                /\ UNCHANGED wire
    /\ UNCHANGED seqVars

NextConcurrent ==
    \/ \E c \in Callers, x \in ConcurrentSignCalls : signConcurrent(c, x[1], x[2])
    \/ \E c \in Callers, o \in ConcurrentOutcomes : signConcurrentResume(c, o)
    \/ \E c \in Callers, x \in ConcurrentSignDataCalls :
           signDataConcurrent(c, x[1], x[2])
    \/ \E c \in Callers, o \in ConcurrentOutcomes : signDataConcurrentResume(c, o)

SpecConcurrent == Init /\ [][NextConcurrent]_vars

Next ==
    \/ \E c \in SignCalls : sign(c[1], c[2])
    \/ \E o \in Outcomes : signResume(o)
    \/ \E c \in SignDataCalls : signData(c[1], c[2])
    \/ \E o \in Outcomes : signDataResume(o)

Spec == Init /\ [][Next]_vars

\* the transport resolves the exchange a call is waiting for
Resolve == \E o \in Outcomes : signResume(o) \/ signDataResume(o)

\* the calls under a transport whose every exchange eventually resolves, to
\* a response or to a failure
SpecLive == Init /\ [][Next]_vars /\ WF_vars(Resolve)

(***************************************************************************)
(* Properties                                                              *)
(***************************************************************************)
\* status trailer of a raw response
swOf(outcome) ==
    outcome.raw[Len(outcome.raw) - 1] * 256 + outcome.raw[Len(outcome.raw)]

\* payload of a raw response
payloadOf(outcome) == SubSeq(outcome.raw, 1, Len(outcome.raw) - 2)

\* number of exchanges of the current call when every exchange is accepted
exchangesPlanned ==
    IF op = "sign" THEN Max(Len(chunks), 1) ELSE Len(chunks) + 1

\* index in sent of the exchange of chunks[k]
sentIndex(k) == IF op = "sign" THEN k ELSE k + 1

\* every exchange of the current call has been issued, each with its chunk
AllExchanged ==
    /\ Len(sent) = exchangesPlanned
    /\ \A k \in 1..Len(chunks) : sent[sentIndex(k)].chunk = Some(chunks[k])

\* every exchange issued was answered with status 0x9000
AllAccepted ==
    /\ Len(received) = Len(sent)
    /\ \A k \in 1..Len(received) :
           received[k].type = "response" /\ swOf(received[k]) = 36864

\* C1: round trip of the legacy chunker: for accountId 0 the chunks of a
\* message, concatenated in order, are exactly the bytes of the message.
C1_RoundTrip ==
    (op = "sign" /\ args.accountId = 0)
        => concat(chunks) = messageBufferOf(args.message)

C1_Witness ==
    /\ op = "sign" /\ args.accountId = 0
    /\ Len(chunks) = 3
    /\ Len(chunks[3]) < chunkSize

\* C2: context prefixing: with accountId 0 the split buffer is the message;
\* with accountId k > 0 it is 4 bytes that read k big-endian followed by the
\* message, and the prefix counts toward the size of the first chunk.
C2_ContextPrefix ==
    op = "sign" =>
        LET b == concat(chunks)
            m == messageBufferOf(args.message)
            k == args.accountId
        IN  IF k = 0
            THEN b = m
            ELSE /\ Len(b) = Len(m) + 4
                 /\ b[1] * 16777216 + b[2] * 65536 + b[3] * 256 + b[4] = k
                 /\ SubSeq(b, 5, Len(b)) = m
                 /\ Len(chunks[1]) = Min(250, Len(m) + 4)
                 /\ SubSeq(chunks[1], 1, 4) = SubSeq(b, 1, 4)

C2_Witness ==
    /\ op = "sign" /\ args.accountId = 16909060
    /\ Len(messageBufferOf(args.message)) = 247
    /\ Len(chunks) = 2

\* C3: chunk bound: a non-empty pre-split buffer of length L gives
\* ceil(L / 250) chunks, all of length 250 except the last, whose length is
\* in 1..250.
C3_ChunkBound ==
    op = "sign" =>
        LET L == Len(messageBufferOf(args.message))
                 + (IF args.accountId # 0 THEN 4 ELSE 0)
            n == Len(chunks)
        IN  L > 0 =>
                /\ n = (L + 249) \div 250
                /\ \A k \in 1..(n - 1) : Len(chunks[k]) = 250
                /\ Len(chunks[n]) >= 1 /\ Len(chunks[n]) <= 250

C3_Witness ==
    /\ op = "sign" /\ args.accountId = 0
    /\ Len(messageBufferOf(args.message)) = 2 * chunkSize
    /\ Len(chunks) = 2

\* C4: the chunk sequence is never empty: every message gives at least one
\* chunk, and the empty message with accountId 0 gives exactly one chunk of
\* zero length.
C4_NeverEmpty ==
    op = "sign" =>
        /\ Len(chunks) >= 1
        /\ (args.accountId = 0 /\ messageBufferOf(args.message) = <<>>)
               => chunks = << <<>> >>

\* C5: legacy flag scheme of sign: the exchange of chunk 0 carries P1 = 0x01
\* whatever the accountId, every later one P1 = 0x80; the exchange of a chunk
\* before the last carries P2 = 0x80 and the one of the last chunk P2 = 0x00;
\* a single chunk is sent with (0x01, 0x00).
C5_LegacyFlags ==
    op = "sign" =>
        /\ \A k \in 1..Len(sent) :
               /\ sent[k].p1 = (IF k = 1 THEN 1 ELSE 128)
               /\ sent[k].p2 = (IF k < Len(chunks) THEN 128 ELSE 0)
               /\ k <= Len(chunks) => sent[k].chunk = Some(chunks[k])
        /\ Len(chunks) = 1 => (sent[1].p1 = 1 /\ sent[1].p2 = 0)

C5_Witness ==
    /\ op = "sign" /\ args.accountId = 0
    /\ pc = "done" /\ result.kind = "ok"
    /\ Len(sent) = 3

\* C6: structured flag scheme of signData: the first exchange carries the
\* serialized path with P1 = 0x00, each following exchange carries a chunk
\* of the field buffer with P1 = 0x01 except the final one with P1 = 0x02,
\* and P2 is 0 on every exchange.
C6_StructuredFlags ==
    (op = "signData" /\ sent # <<>>) =>
        /\ sent[1].p1 = 0
        /\ sent[1].chunk = Some(pathBufferOf(args.signingData).buffer)
        /\ \A k \in 2..Len(sent) :
               /\ sent[k].p1 = (IF k < Len(chunks) + 1 THEN 1 ELSE 2)
               /\ sent[k].chunk = Some(chunks[k - 1])
        /\ \A k \in 1..Len(sent) : sent[k].p2 = 0

C6_Witness ==
    /\ op = "signData"
    /\ pc = "done" /\ result.kind = "ok"
    /\ Len(sent) = 4

\* C7: abort on error: when a non-final exchange of sign or signData is
\* answered with a status that is neither success nor DataIsInvalid nor
\* BadKeyHandle, no later exchange is issued and the call ends with that
\* status as its error.
C7_AbortOnError ==
    \A i \in 1..Len(received) :
        (/\ received[i].type = "response"
         /\ swOf(received[i]) \notin {36864, DataIsInvalid, BadKeyHandle}
         /\ i < exchangesPlanned)
        => /\ Len(sent) = i
           /\ pc = "done"
           /\ result.kind = "error"
           /\ result.error.returnCode = swOf(received[i])

C7_Witness ==
    /\ op = "sign" /\ Len(chunks) = 3
    /\ Len(received) = 2 /\ Len(sent) = 2
    /\ received[2].type = "response" /\ swOf(received[2]) = ErrorFailedHdPath
    /\ pc = "done" /\ result.kind = "error"

\* C8: atomicity: a call returns a signature only when every chunk was
\* exchanged and every exchange accepted; every other finished call ended
\* with an error that carries no signature.
C8_Atomicity ==
    /\ result.kind = "ok" => (AllExchanged /\ AllAccepted)
    /\ pc = "done" => result.kind \in {"ok", "error"}
    /\ (pc = "done" /\ ~(AllExchanged /\ AllAccepted)) => result.kind = "error"
    /\ result.kind # "ok" => "value" \notin DOMAIN result

C8_Witness ==
    /\ op = "signData" /\ Len(chunks) = 2
    /\ Len(received) = 2 /\ swOf(received[1]) = 36864
    /\ received[2].type = "response" /\ swOf(received[2]) = DataIsInvalid
    /\ pc = "done" /\ result.kind = "error"

\* C9: the returned signature is the payload of the last exchange, the
\* bytes of the final response before its 2-byte status trailer; the
\* payloads of earlier exchanges do not contribute.
C9_SignatureIsLastPayload ==
    result.kind = "ok" =>
        LET raw == received[Len(received)].raw
        IN  /\ Len(result.value.signature) = Len(raw) - 2
            /\ \A k \in 1..(Len(raw) - 2) : result.value.signature[k] = raw[k]

C9_Witness ==
    /\ op = "sign" /\ result.kind = "ok"
    /\ Len(received) = 2
    /\ payloadOf(received[1]) # payloadOf(received[2])
    /\ Len(received[2].raw) = 66
    /\ Len(result.value.signature) = 64

\* C10: validation precedes transport: signData with an encoding other than
\* "base64" ends with the validation error and issues no exchange.
C10_ValidationFirst ==
    (op = "signData" /\ args.metadata.encoding # "base64") =>
        /\ pc = "done"
        /\ result.kind = "error"
        /\ result.error = [name |-> "Error", message |-> "Failed decoding"]
        /\ sent = <<>>
        /\ received = <<>>

C10_Witness ==
    /\ op = "signData" /\ args.metadata.encoding = "utf16"
    /\ pc = "done"

\* C11: field buffer length: for every signData input with the supported
\* encoding the encoded field buffer has len(signer) + 1 + 1 + len(data) +
\* len(domain) + len(requestId) + len(authenticationData) + 8 bytes (four
\* 2-byte length prefixes, whether the variable fields are empty or not),
\* and the write offset after the last field equals the allocated size.
C11_FieldBufferLength ==
    (op = "signData" /\ sent # <<>>) =>
        LET sd == args.signingData
            expected == Len(sd.signer) + 1 + 1
                        + Len(fromBase64(sd.data))
                        + Len(domainBufferOf(sd))
                        + Len(requestIdBufferOf(sd))
                        + Len(authDataBufferOf(sd))
                        + 8
            final == encodeFields(sd, args.metadata)
        IN  /\ Len(concat(chunks)) = expected
            /\ Len(final.buf) = expected
            /\ final.offset = Len(final.buf)

C11_Witness ==
    /\ op = "signData" /\ sent # <<>>
    /\ args.signingData.domain = None
    /\ args.signingData.requestId = None
    /\ args.signingData.authenticationData = None
    /\ Len(concat(chunks)) = 50

\* the variable-length field at offset pos of buf: a 2-byte big-endian
\* length equal to the number of bytes, followed by exactly these bytes
FieldAt(buf, pos, bytes) ==
    /\ Len(buf) >= pos + 2 + Len(bytes)
    /\ buf[pos + 1] * 256 + buf[pos + 2] = Len(bytes)
    /\ SubSeq(buf, pos + 3, pos + 2 + Len(bytes)) = bytes

\* C12: field layout: the encoded field buffer is the signer bytes, one
\* scope byte, one encoding-tag byte, then data, domain, request id and
\* authentication data, each as a 2-byte big-endian length followed by that
\* many bytes; an absent domain, request id or authentication data is
\* written as the length 0x0000 with no bytes and is never left out.
C12_FieldLayout ==
    (op = "signData" /\ sent # <<>>) =>
        LET sd == args.signingData
            buf == concat(chunks)
            data == fromBase64(sd.data)
            domain == IF sd.domain = None THEN <<>> ELSE utf8(sd.domain[1])
            requestId == IF sd.requestId = None THEN <<>>
                         ELSE fromBase64(sd.requestId[1])
            authData == IF sd.authenticationData = None THEN <<>>
                        ELSE sd.authenticationData[1]
            p0 == Len(sd.signer)
            p1 == p0 + 2
            p2 == p1 + 2 + Len(data)
            p3 == p2 + 2 + Len(domain)
            p4 == p3 + 2 + Len(requestId)
        IN  /\ SubSeq(buf, 1, p0) = sd.signer
            /\ buf[p0 + 1] = args.metadata.scope % 256
            /\ buf[p0 + 2] = 1
            /\ FieldAt(buf, p1, data)
            /\ FieldAt(buf, p2, domain)
            /\ FieldAt(buf, p3, requestId)
            /\ FieldAt(buf, p4, authData)
            /\ Len(buf) = p4 + 2 + Len(authData)
            /\ sd.domain = None => (buf[p2 + 1] = 0 /\ buf[p2 + 2] = 0 /\ p3 = p2 + 2)
            /\ sd.requestId = None => (buf[p3 + 1] = 0 /\ buf[p3 + 2] = 0 /\ p4 = p3 + 2)
            /\ sd.authenticationData = None =>
                   (buf[p4 + 1] = 0 /\ buf[p4 + 2] = 0 /\ Len(buf) = p4 + 2)

C12_Witness ==
    /\ op = "signData" /\ sent # <<>>
    /\ args.signingData.domain = None
    /\ args.signingData.requestId # None
    /\ args.signingData.requestId[1] # <<>>
    /\ args.signingData.authenticationData = None
    /\ Len(chunks) = 2

\* C13: signData echo: on success signData returns data, signer, domain,
\* authenticationData, requestId and hdPath equal to the input fields (an
\* absent hdPath stays absent although the default path was sent to the
\* device), together with the signature returned by the device; the input
\* request is the one the call was made with.
C13_Echo ==
    (op = "signData" /\ result.kind = "ok") =>
        LET sd == args.signingData
            v == result.value
        IN  /\ v.data = sd.data
            /\ v.signer = sd.signer
            /\ v.domain = sd.domain
            /\ v.authenticationData = sd.authenticationData
            /\ v.requestId = sd.requestId
            /\ v.hdPath = sd.hdPath
            /\ v.signature = payloadOf(received[Len(received)])
            /\ sd.hdPath = None =>
                   sent[1].chunk = Some(serializePath(DEFAULT_SIGN_DATA_PATH).buffer)
            /\ <<sd, args.metadata>> \in SignDataCalls
            /\ signDataPrepared[<<sd, args.metadata>>].chunks = chunks

C13_Witness ==
    /\ op = "signData" /\ result.kind = "ok"
    /\ args.signingData.hdPath = None
    /\ args.signingData.domain # None
    /\ Len(result.value.signature) = SIGLEN

\* C14: error translation in signData: when an exchange of signData is
\* rejected with a status in 0x6988..0x698F, the error raised carries that
\* code and the message Invalid Scope, Failed decoding, Invalid Signer,
\* Missing Domain, Missing Authentication Data, Bad JSON, Failed Domain
\* Auth, Failed HD Path respectively; the table of the operation takes
\* precedence over the generic table of device errors.
C14_ErrorTranslation ==
    op = "signData" =>
        \A i \in 1..Len(received) :
            (received[i].type = "response"
             /\ swOf(received[i]) \in 27016..27023) =>
                /\ pc = "done"
                /\ result.kind = "error"
                /\ result.error.returnCode = swOf(received[i])
                /\ result.error.errorMessage =
                       <<"Invalid Scope", "Failed decoding", "Invalid Signer",
                         "Missing Domain", "Missing Authentication Data",
                         "Bad JSON", "Failed Domain Auth",
                         "Failed HD Path">>[swOf(received[i]) - 27015]
                /\ \A code \in DOMAIN ARBITRARY_SIGN_ERRORS_ONLY :
                       errorCodeToString(code, ARBITRARY_SIGN_ERROR_DESCRIPTIONS)
                           = ARBITRARY_SIGN_ERRORS_ONLY[code]

C14_Witness ==
    /\ op = "signData" /\ pc = "done" /\ result.kind = "error"
    /\ Len(received) = 2
    /\ received[2].type = "response" /\ swOf(received[2]) = ErrorBadJson
    /\ result.error.errorMessage = "Bad JSON"

\* C15: every error outcome of sign and signData, of every class
\* (validation error, device status error, transport error), exposes a
\* numeric code and a human-readable message to the caller.
C15_ErrorsHaveCodeAndMessage ==
    (pc = "done" /\ result.kind = "error") =>
        /\ "returnCode" \in DOMAIN result.error
        /\ result.error.returnCode \in 0..65535
        /\ "errorMessage" \in DOMAIN result.error
        /\ result.error.errorMessage # ""

\* C17: a sign call whose exchanges all succeed returns, next to the
\* signature, returnCode equal to LedgerError.NoErrors.
C17_SignReturnCode ==
    (op = "sign" /\ pc = "done" /\ result.kind = "ok") =>
        /\ "signature" \in DOMAIN result.value
        /\ "returnCode" \in DOMAIN result.value
        /\ result.value.returnCode = NoErrors

\* C18 (as stated): when the exchange of a non-final chunk returns
\* DataIsInvalid or BadKeyHandle the loop does not abort and the next chunk
\* is still exchanged; when the exchange of the final chunk returns one of
\* them it is surfaced as the outcome of the call.
C18_AllowedStatusesContinue ==
    \A i \in 1..Len(received) :
        (received[i].type = "response"
         /\ swOf(received[i]) \in {DataIsInvalid, BadKeyHandle}) =>
            IF i < exchangesPlanned
            THEN Len(sent) > i
            ELSE /\ pc = "done"
                 /\ result.kind = "error"
                 /\ result.error.returnCode = swOf(received[i])

\* C18 (amended): when an exchange returns DataIsInvalid or BadKeyHandle,
\* for a non-final chunk as for the final one, the loop aborts: no further
\* chunk is exchanged and the call ends with an error that carries this
\* status and its generic description.
C18_AllowedStatusesAbort ==
    \A i \in 1..Len(received) :
        (received[i].type = "response"
         /\ swOf(received[i]) \in {DataIsInvalid, BadKeyHandle}) =>
            /\ Len(sent) = i
            /\ Len(received) = i
            /\ pc = "done"
            /\ result.kind = "error"
            /\ result.error.returnCode = swOf(received[i])
            /\ result.error.errorMessage =
                   (IF swOf(received[i]) = DataIsInvalid
                    THEN "Data is invalid" ELSE "Bad key handle")

C18_Witness ==
    /\ op = "sign" /\ Len(chunks) = 3
    /\ Len(received) = 1
    /\ received[1].type = "response" /\ swOf(received[1]) = BadKeyHandle
    /\ pc = "done"

\* C19: any non-success outcome aborts: in sign and signData an exchange
\* whose status is anything other than 0x9000, DataIsInvalid and
\* BadKeyHandle included, ends the chunk sequence and is propagated to the
\* caller as an error.
C19_AnyNonSuccessAborts ==
    \A i \in 1..Len(received) :
        (received[i].type = "response" /\ swOf(received[i]) # 36864) =>
            /\ Len(sent) = i
            /\ Len(received) = i
            /\ pc = "done"
            /\ result.kind = "error"
            /\ result.error.returnCode = swOf(received[i])

C19_Witness ==
    /\ op = "signData" /\ Len(chunks) = 3
    /\ Len(received) = 2
    /\ received[2].type = "response" /\ swOf(received[2]) = DataIsInvalid
    /\ Len(sent) = 2
    /\ pc = "done" /\ result.kind = "error"

\* C20: strict sequencing within one call: the exchanges are issued in
\* increasing chunk-index order 0, 1, ..., exchange i+1 only after exchange
\* i has resolved, so a call never has more than one exchange in flight.
C20_StrictSequencing ==
    /\ \A k \in 1..Len(sent) :
           /\ sent[k].chunkIdx = k - 1
           /\ (op = "sign" /\ chunks # <<>>) => sent[k].chunk = Some(chunks[k])
           /\ (op = "signData" /\ k > 1) => sent[k].chunk = Some(chunks[k - 1])
    /\ Len(received) <= Len(sent)
    /\ Len(sent) <= Len(received) + 1
    /\ (pc = "awaiting") <=> (Len(sent) = Len(received) + 1)
    /\ \A k \in 1..(Len(sent) - 1) :
           received[k].type = "response" /\ swOf(received[k]) = 36864

C20_Witness ==
    /\ op = "sign" /\ Len(chunks) = 3
    /\ pc = "awaiting"
    /\ Len(sent) = 3 /\ Len(received) = 2

\* C16: non-interleaving: when two signing calls are started concurrently
\* against the same app instance and transport, no exchange of one call is
\* issued between the first and the last exchange of the other.
C16_NonInterleaving ==
    \A i, j, k \in 1..Len(wire) :
        (i < j /\ j < k /\ wire[i].call = wire[k].call)
            => wire[j].call = wire[i].call

\* C21: no automatic retry: within one sign or signData call every chunk
\* index is transmitted at most once, whatever the responses, so a call
\* issues at most N exchanges (sign, N chunks) or N + 1 exchanges
\* (signData, the path and N chunks of the field buffer).
C21_NoRetry ==
    /\ \A j, k \in 1..Len(sent) : sent[j].chunkIdx = sent[k].chunkIdx => j = k
    /\ op = "sign" => Len(sent) <= Len(chunks)
    /\ op = "signData" => Len(sent) <= Len(chunks) + 1

\* what holds of it: no chunk index is transmitted twice, and a call with
\* N >= 1 chunks issues at most N (sign) or N + 1 (signData) exchanges
NoRetryOfAChunk ==
    /\ \A j, k \in 1..Len(sent) : sent[j].chunkIdx = sent[k].chunkIdx => j = k
    /\ (op = "sign" /\ chunks # <<>>) => Len(sent) <= Len(chunks)
    /\ op = "signData" => Len(sent) <= Len(chunks) + 1

\* C22: continuation state of a fully successful run of sign: exactly one
\* exchange is marked first (P1 = 0x01) and it is the first one issued,
\* exactly one is marked last (P2 = 0x00) and it is the final one issued,
\* and no exchange is issued after the one marked last.
C22_ContinuationState ==
    op = "sign" =>
        /\ \A k \in 1..Len(sent) : sent[k].p2 = 0 => k = Len(sent)
        /\ (pc = "done" /\ result.kind = "ok") =>
               /\ {k \in 1..Len(sent) : sent[k].p1 = 1} = {1}
               /\ {k \in 1..Len(sent) : sent[k].p2 = 0} = {Len(sent)}
               /\ \A k \in 2..(Len(sent) - 1) :
                      sent[k].p1 = 128 /\ sent[k].p2 = 128
               /\ Len(received) = Len(sent)

C22_Witness ==
    /\ op = "sign" /\ pc = "done" /\ result.kind = "ok"
    /\ args.accountId = 16909060
    /\ Len(sent) = 3
    /\ sent[2].p1 = 128 /\ sent[2].p2 = 128

\* C23: structured chunking of signData: the payload of the leading
\* exchange is exactly the serialized derivation path and holds no byte of
\* the field buffer; the payloads of the following exchanges, concatenated
\* in order, are exactly the encoded field buffer, and each of them has at
\* most 250 bytes.
C23_StructuredChunking ==
    (op = "signData" /\ sent # <<>>) =>
        LET fb == fieldBufferOf(args.signingData, args.metadata)
            path == pathBufferOf(args.signingData).buffer
            payloads == [k \in 1..(Len(sent) - 1) |-> wireData(sent[k + 1])]
            stream == concat(payloads)
        IN  /\ wireData(sent[1]) = path
            /\ Len(wireData(sent[1])) = 4 * 5
            /\ \A k \in 1..Len(payloads) :
                   Len(payloads[k]) >= 1 /\ Len(payloads[k]) <= 250
            /\ Len(stream) <= Len(fb)
            /\ stream = SubSeq(fb, 1, Len(stream))
            /\ (pc = "done" /\ result.kind = "ok") => stream = fb

C23_Witness ==
    /\ op = "signData" /\ pc = "done" /\ result.kind = "ok"
    /\ Len(sent) = 4
    /\ Len(wireData(sent[2])) = 250
    /\ Len(wireData(sent[4])) < 250

\* C24: default path fallback: when signingData.hdPath is absent or empty
\* the leading exchange of signData carries the serialization of the
\* default path m/44'/283'/0'/0/0; when hdPath is supplied it carries the
\* serialization of the supplied path.
C24_DefaultPath ==
    (op = "signData" /\ sent # <<>>) =>
        LET hdPath == args.signingData.hdPath
            absent == hdPath = None \/ hdPath = Some([m |-> FALSE, elems |-> <<>>])
            leading == wireData(sent[1])
        IN  /\ sent[1].chunkIdx = 0
            /\ absent =>
                   leading = <<44, 0, 0, 128, 27, 1, 0, 128, 0, 0, 0, 128,
                               0, 0, 0, 0, 0, 0, 0, 0>>
            /\ ~absent =>
                   /\ Len(hdPath[1].elems) = 5
                   /\ leading = serializePath(hdPath[1]).buffer
                   /\ \A k \in 1..5 :
                          LET e == hdPath[1].elems[k]
                              word == leading[4 * k - 3] + leading[4 * k - 2] * 256
                                      + leading[4 * k - 1] * 65536
                                      + (leading[4 * k] % 128) * 16777216
                          IN  word = e.n /\ (leading[4 * k] >= 128) = e.h

C24_Witness ==
    /\ op = "signData" /\ sent # <<>>
    /\ args.signingData.hdPath = None
    /\ wireData(sent[1])[9] = 0

C24_WitnessSupplied ==
    /\ op = "signData" /\ sent # <<>>
    /\ args.signingData.hdPath # None
    /\ wireData(sent[1])[9] = 2 /\ wireData(sent[1])[17] = 7

\* the exchanges a call issues and its result, as functions of its arguments
\* and of the responses it has received so far
Accepted(o) == o.type = "response" /\ swOf(o) = 36864

CallRejected ==
    op = "signData" /\ signDataPrepared[<<args.signingData, args.metadata>>].threw

CallChunks ==
    IF op = "sign" THEN signChunks[<<args.accountId, args.message>>]
    ELSE IF CallRejected THEN <<>>
    ELSE signDataPrepared[<<args.signingData, args.metadata>>].chunks

CallExchange(k) ==
    IF op = "sign"
    THEN [cla |-> 128, ins |-> 8,
          p1 |-> IF k = 1 THEN 1 ELSE 128,
          p2 |-> IF k < Len(CallChunks) THEN 128 ELSE 0,
          chunkIdx |-> k - 1,
          chunk |-> IF k <= Len(CallChunks) THEN Some(CallChunks[k]) ELSE None]
    ELSE [cla |-> 128, ins |-> 16,
          p1 |-> IF k = 1 THEN 0 ELSE IF k < Len(CallChunks) + 1 THEN 1 ELSE 2,
          p2 |-> 0,
          chunkIdx |-> k - 1,
          chunk |-> IF k = 1
                    THEN Some(signDataPrepared[<<args.signingData,
                                                 args.metadata>>].pathBuffer)
                    ELSE Some(CallChunks[k - 1])]

CallDependsOnlyOnItself ==
    op # "none" =>
        LET planned == IF op = "sign" THEN Max(Len(CallChunks), 1)
                       ELSE Len(CallChunks) + 1
            n == Len(received)
            rejected == CallRejected
        IN  /\ chunks = CallChunks
            /\ rejected => (sent = <<>> /\ n = 0 /\ result.kind = "error")
            /\ ~rejected =>
                   /\ \A k \in 1..(n - 1) : Accepted(received[k])
                   /\ Len(sent) = IF n > 0 /\ ~Accepted(received[n])
                                   THEN n ELSE Min(planned, n + 1)
                   /\ \A k \in 1..Len(sent) : sent[k] = CallExchange(k)
                   /\ result.kind =
                          (IF n > 0 /\ ~Accepted(received[n]) THEN "error"
                           ELSE IF n = planned THEN "ok" ELSE "pending")
                   /\ result.kind = "ok" =>
                          result.value.signature = payloadOf(received[n])
                   /\ (result.kind = "error" /\ received[n].type = "response") =>
                          result.error.returnCode = swOf(received[n])

\* a call that follows another one starts again at chunk 0, with the
\* first-chunk flag and nothing received
CallRestarts ==
    nCalls' = nCalls + 1 =>
        /\ idx' = 0
        /\ received' = <<>>
        /\ signatureResponse' = None
        /\ Len(sent') <= 1
        /\ \A k \in 1..Len(sent') :
               /\ sent'[k].chunkIdx = 0
               /\ sent'[k].p1 = (IF op' = "sign" THEN 1 ELSE 0)

\* C25: no state survives a call: the exchanges (instruction, P1, P2,
\* payload) issued by a sign or signData call and its result depend only on
\* the arguments of the call and on the responses received during it; after
\* any earlier call, a failed or aborted one included, the next call starts
\* again at chunk 0 with the first-chunk flag.
C25_NoStateSurvives == [](CallDependsOnlyOnItself) /\ [][CallRestarts]_vars

C25_Witness ==
    /\ nCalls = 2
    /\ op = "sign" /\ Len(chunks) = 3
    /\ pc = "awaiting" /\ Len(sent) = 2
    /\ sent[1].chunkIdx = 0 /\ sent[1].p1 = 1

\* C26: termination: provided every transport exchange eventually resolves
\* to a response or a failure, every sign and signData call eventually
\* returns a result or raises an error; a call only stays pending while one
\* of its exchanges is unresolved.
C26_Termination ==
    /\ [](op # "none" =>
           /\ pc \in {"awaiting", "done"}
           /\ pc = "done" <=> result.kind \in {"ok", "error"}
           /\ pc = "awaiting" <=> Len(sent) = Len(received) + 1)
    /\ (pc = "awaiting") ~> (pc = "done")

C26_Witness ==
    /\ op = "signData" /\ Len(chunks) = 3
    /\ pc = "done" /\ Len(received) = 4

\* the bytes a sequence of exchanges transmits, in order
byteStream(exchanges) ==
    concat([k \in 1..Len(exchanges) |-> wireData(exchanges[k])])

\* C27: the two legacy sign implementations encode the same contract: for
\* every account id and message the account-id-based sign and the
\* path-based sign transmit the same byte stream (the concatenation in
\* order of their exchange payloads), with P1 = 0x01 on the first exchange
\* and P2 = 0x00 only on the final exchange in both.
C27_LegacyEquivalence ==
    (op = "sign" /\ pc = "done" /\ result.kind = "ok") =>
        LET other == signWithPath(accountPath(args.accountId),
                                  messageBufferOf(args.message))
        IN  /\ byteStream(sent) = byteStream(other)
            /\ sent[1].p1 = 1 /\ other[1].p1 = 1
            /\ {k \in 1..Len(sent) : sent[k].p2 = 0} = {Len(sent)}
            /\ {k \in 1..Len(other) : other[k].p2 = 0} = {Len(other)}

\* what holds of it: the two agree for every account id other than 0
LegacyEquivalenceNonZero ==
    (op = "sign" /\ pc = "done" /\ result.kind = "ok" /\ args.accountId # 0) =>
        LET other == signWithPath(accountPath(args.accountId),
                                  messageBufferOf(args.message))
        IN  /\ byteStream(sent) = byteStream(other)
            /\ sent[1].p1 = 1 /\ other[1].p1 = 1
            /\ {k \in 1..Len(sent) : sent[k].p2 = 0} = {Len(sent)}
            /\ {k \in 1..Len(other) : other[k].p2 = 0} = {Len(other)}

\* the table of error descriptions the operation under way hands to
\* processErrorResponse
tableOfCall ==
    IF op = "signData" THEN ARBITRARY_SIGN_ERROR_DESCRIPTIONS ELSE NoCustomErrors

\* the last exchange of the call was failed by the transport without status
LastFailedWithoutStatus ==
    /\ pc = "done" /\ Len(received) > 0
    /\ received[Len(received)].type = "failure"

\* the last exchange of the call was failed by the transport with a status
LastFailedWithStatus ==
    /\ pc = "done" /\ Len(received) > 0
    /\ received[Len(received)].type = "response"
    /\ swOf(received[Len(received)]) \notin statusList

\* C28 as stated: when the transport exchange fails without a status code
\* (disconnect, timeout), sign and signData propagate that failure to the
\* caller unchanged; when it fails with a status code the error is
\* translated with the same table as device status errors.
C28_TransportErrorOpaque ==
    /\ LastFailedWithoutStatus =>
           /\ result.kind = "error"
           /\ result.error = [name |-> "TransportError"]
    /\ LastFailedWithStatus =>
           /\ result.kind = "error"
           /\ result.error =
                  fromReturnCode(swOf(received[Len(received)]), tableOfCall)

\* C28 as the code has it: a transport failure without status code reaches
\* the caller of sign and signData replaced by the error of code 0xFFFF
\* (unknown transport error) with that code's message, the failure itself
\* being dropped; a failure with a status code is translated with the table
\* of the operation, the one used for device status errors.
C28_TransportErrorReplaced ==
    /\ LastFailedWithoutStatus =>
           /\ result.kind = "error"
           /\ result.error # [name |-> "TransportError"]
           /\ result.error.name = "ResponseError"
           /\ result.error.returnCode = 65535
           /\ result.error.errorMessage = "Unknown transport error"
    /\ LastFailedWithStatus =>
           /\ result.kind = "error"
           /\ result.error =
                  fromReturnCode(swOf(received[Len(received)]), tableOfCall)

C28_Witness ==
    /\ op = "signData" /\ LastFailedWithoutStatus
    /\ Len(received) = 2
    /\ result.kind = "error" /\ result.error.returnCode = 65535

C28_WitnessStatus ==
    /\ op = "sign" /\ LastFailedWithStatus
    /\ result.kind = "error"
    /\ result.error.returnCode = swOf(received[Len(received)])

\* the P1 values a caller of sendGenericChunk supplies or obtains
P1Values == {P1_INIT, P1_ADD, P1_LAST, P1_FIRST_ACCOUNT_ID, P1_MORE}

\* C29: per-exchange P1 override in sendGenericChunk: a P1 supplied
\* explicitly, the value 0 (INIT) included, is the P1 of the exchange
\* whatever the chunk index; only an omitted P1 is derived from the index
\* (FIRST_WITH_CONTEXT for index 0, MORE otherwise).  signData supplies it
\* on every exchange, sign on none.
C29_P1Override ==
    /\ \A ins \in {SIGN_MSGPACK, SIGN_ARBITRARY} :
       \A chunkIdx \in 0..(MaxMult + 1) :
           /\ \A v \in P1Values :
                  sendGenericChunk(ins, P2_LAST_CHUNK, chunkIdx, MaxMult + 2,
                                   Some(<<>>), Some(v)).p1 = v
           /\ sendGenericChunk(ins, P2_LAST_CHUNK, chunkIdx, MaxMult + 2,
                               Some(<<>>), None).p1
                  = IF chunkIdx = 0 THEN P1_FIRST_ACCOUNT_ID ELSE P1_MORE
    /\ op = "signData" =>
           \A k \in 1..Len(sent) :
               /\ sent[k].chunkIdx = k - 1
               /\ sent[k].p1 = IF k = 1 THEN P1_INIT
                                ELSE IF k < exchangesPlanned THEN P1_ADD
                                ELSE P1_LAST
    /\ op = "sign" =>
           \A k \in 1..Len(sent) :
               /\ sent[k].chunkIdx = k - 1
               /\ sent[k].p1 = IF k = 1 THEN P1_FIRST_ACCOUNT_ID ELSE P1_MORE

C29_Witness ==
    /\ op = "signData" /\ Len(sent) = 3 /\ exchangesPlanned = 3
    /\ sent[1].chunkIdx = 0 /\ sent[1].p1 = P1_INIT
    /\ sent[2].chunkIdx = 1 /\ sent[2].p1 = P1_ADD
    /\ sent[3].chunkIdx = 2 /\ sent[3].p1 = P1_LAST

\* C30: every exchange of one signing operation carries the class byte 0x80
\* and the instruction of the operation: SIGN_MSGPACK (0x08) on every
\* exchange of sign, SIGN_ARBITRARY (0x10) on every exchange of signData;
\* the two instructions are never mixed within one call.
C30_ClassAndInstruction ==
    /\ \A k \in 1..Len(sent) :
           /\ sent[k].cla = 128
           /\ op = "sign" => sent[k].ins = 8
           /\ op = "signData" => sent[k].ins = 16
    /\ \A j, k \in 1..Len(sent) : sent[j].ins = sent[k].ins
    /\ Len(sent) > 0 => op \in {"sign", "signData"}

C30_Witness ==
    /\ op = "signData" /\ pc = "done" /\ result.kind = "ok"
    /\ Len(sent) = 3
    /\ \A k \in 1..3 : sent[k].cla = 128 /\ sent[k].ins = 16

C30_WitnessSign ==
    /\ op = "sign" /\ pc = "done" /\ result.kind = "ok"
    /\ Len(sent) = 3
    /\ \A k \in 1..3 : sent[k].cla = 128 /\ sent[k].ins = 8

\* C31: every signData call that passes validation issues at least two
\* exchanges when all are accepted, the first tagged INIT and the last
\* tagged LAST, because the encoded field buffer is never empty (it holds
\* at least the scope byte, the encoding byte and four length prefixes);
\* exactly one exchange of a call is tagged INIT and exactly one LAST.
C31_SignDataTwoExchanges ==
    (op = "signData" /\ sent # <<>>) =>
        /\ Len(chunks) >= 1
        /\ Len(concat(chunks)) >= 1 + 1 + 4 * 2
        /\ {k \in 1..Len(sent) : sent[k].p1 = P1_INIT} = {1}
        /\ {k \in 1..Len(sent) : sent[k].p1 = P1_LAST}
               \subseteq {Len(chunks) + 1}
        /\ result.kind = "ok" =>
               /\ Len(sent) >= 2
               /\ Len(sent) = Len(chunks) + 1
               /\ sent[1].p1 = P1_INIT
               /\ sent[Len(sent)].p1 = P1_LAST
               /\ {k \in 1..Len(sent) : sent[k].p1 = P1_LAST} = {Len(sent)}

C31_Witness ==
    /\ op = "signData" /\ pc = "done" /\ result.kind = "ok"
    /\ Len(sent) = 2
    /\ sent[1].p1 = P1_INIT /\ sent[2].p1 = P1_LAST
    /\ Len(chunks) = 1 /\ Len(chunks[1]) > 0

\* C32: sign issues its first exchange unconditionally, so every sign call
\* issues at least one exchange; when the chunk list is empty (empty
\* message, accountId 0) that single exchange is sent with the flags
\* FIRST_WITH_CONTEXT (P1 = 0x01) and LAST_CHUNK (P2 = 0x00) and its
\* payload is the missing element chunks[0], not a chunk of the chunker.
C32_FirstExchangeUnconditional ==
    op = "sign" =>
        /\ Len(sent) >= 1
        /\ sent[1].chunkIdx = 0
        /\ chunks = <<>> <=>
               (args.accountId = 0 /\ messageBufferOf(args.message) = <<>>)
        /\ chunks = <<>> =>
               /\ Len(sent) = 1
               /\ sent[1].p1 = P1_FIRST_ACCOUNT_ID
               /\ sent[1].p2 = P2_LAST_CHUNK
               /\ sent[1].chunk = None
               /\ wireData(sent[1]) = <<>>
        /\ chunks # <<>> => sent[1].chunk = Some(chunks[1])

C32_Witness ==
    /\ op = "sign" /\ pc = "done" /\ result.kind = "ok"
    /\ chunks = <<>>
    /\ Len(sent) = 1 /\ sent[1].chunk = None
    /\ sent[1].p1 = P1_FIRST_ACCOUNT_ID /\ sent[1].p2 = P2_LAST_CHUNK

====
